---- MODULE Spec2Model ----
(***************************************************************************)
(* CodeEditor (client/src/components/CodeEditor.tsx): a textarea overlaid  *)
(* by a syntax-highlighted rendering of the same text, with a scroll       *)
(* synchronizer between the two surfaces, a copy button with a transient   *)
(* "Copied!" flag, and a line-number gutter.                               *)
(*                                                                         *)
(* Text is a sequence of one-character strings.  Rendered markup is a      *)
(* sequence of records [ch, st]: ch is the character the later regular     *)
(* expressions see, st is the highlighting stage that produced it (0 for   *)
(* a character of the document text).                                      *)
(***************************************************************************)
EXTENDS Integers, Sequences, FiniteSets, TLC

VARIABLES
    value,         \* prop `value`: the document text, owned by the caller
    mode,          \* theme.palette.mode
    rendered,      \* children of SyntaxHighlight: one markup row per line
    lineNumbers,   \* the memoized gutter
    copied,        \* useState(false)
    timers,        \* pending setTimeout callbacks: ms left, in firing order
    clipboard,     \* system clipboard content
    textareaRef,   \* textareaRef.current
    highlightRef,  \* highlightRef.current
    scroll,        \* scrollTop / scrollLeft of each surface
    pending,       \* scroll events raised and not yet dispatched, in order
    last,          \* the handler that ran last, and its input
    userLast,      \* the offsets the user set last on the textarea
    sinceLast      \* ms since the most recent copy activation (capped)

vars == <<value, mode, rendered, lineNumbers, copied, timers, clipboard,
          textareaRef, highlightRef, scroll, pending, last, userLast,
          sinceLast>>

textVars   == <<value, mode, rendered, lineNumbers>>
copyVars   == <<copied, timers, clipboard, sinceLast>>
scrollVars == <<textareaRef, highlightRef, scroll, pending, userLast>>

(***************************************************************************)
(* Bounds                                                                  *)
(***************************************************************************)
MaxFrags  == 3    \* fragments in a document the highlighter is applied to
MaxOff    == 1    \* largest scroll offset on either axis
MaxTimers == 2    \* copy-reset timers outstanding at once

(***************************************************************************)
(* Characters                                                              *)
(***************************************************************************)
Upper == {"A","B","C","D","E","F","G","H","I","J","K","L","M",
          "N","O","P","Q","R","S","T","U","V","W","X","Y","Z"}
Lower == {"a","b","c","d","e","f","g","h","i","j","k","l","m",
          "n","o","p","q","r","s","t","u","v","w","x","y","z"}
Digit == {"0","1","2","3","4","5","6","7","8","9"}

Letter   == Upper \cup Lower                                  \* [A-Za-z]
Alnum    == Letter \cup Digit                                 \* [A-Za-z0-9]
HexDigit == {"A","B","C","D","E","F","a","b","c","d","e","f"} \cup Digit
WordChar == Alnum \cup {"_"}                                  \* \w
LineTerminator == {"\n", "\r"}                                \* not matched by .

SRC == 0     \* st of a character of the document text

\* s as markup of stage st
Mark(s, st) == [i \in 1..Len(s) |-> [ch |-> s[i], st |-> st]]

\* the characters of markup r
Chars(r) == [i \in 1..Len(r) |-> r[i].ch]

(***************************************************************************)
(* Templates of highlightSyntax                                            *)
(***************************************************************************)
SpanHead  == <<"<", "s", "p", "a", "n", " ", "s", "t", "y", "l", "e", "=",
               "\"", "c", "o", "l", "o", "r", ":", " ">>
SpanTail  == <<"\"", ">">>
SpanClose == <<"<", "/", "s", "p", "a", "n", ">">>
BrTag     == <<"<", "b", "r", "/", ">">>
BrEscaped == <<"&", "l", "t", ";", "b", "r", "/", "&", "g", "t", ";">>
Nbsp      == <<"&", "n", "b", "s", "p", ";">>
Arrow     == <<"-", "-", ">">>
Keywords  == << <<"g", "r", "a", "p", "h">>, <<"T", "D">>, <<"L", "R">>,
                <<"T", "B">>, <<"R", "L">> >>

\* getColors()
getColors(m) ==
    [keyword  |-> IF m = "dark" THEN <<"#", "B", "3", "9", "D", "D", "B">>
                                ELSE <<"#", "9", "5", "7", "5", "C", "D">>,
     node     |-> IF m = "dark" THEN <<"#", "4", "f", "a", "1", "e", "3">>
                                ELSE <<"#", "6", "4", "B", "5", "F", "6">>,
     operator |-> IF m = "dark" THEN <<"#", "7", "D", "D", "1", "8", "0">>
                                ELSE <<"#", "8", "1", "C", "7", "8", "4">>]

\* `<span style="color: ${color}">${inner}</span>` inserted by stage st
Span(color, inner, st) ==
    Mark(SpanHead \o color \o SpanTail, st) \o inner \o Mark(SpanClose, st)

(***************************************************************************)
(* Regular-expression primitives over markup r, 1-based position i         *)
(***************************************************************************)
\* the literal pat matches at i
MatchAt(r, i, pat) ==
    /\ i + Len(pat) - 1 <= Len(r)
    /\ \A k \in 1..Len(pat) : r[i + k - 1].ch = pat[k]

IsWordAt(r, i) == i \in 1..Len(r) /\ r[i].ch \in WordChar

\* \b between positions i-1 and i
Boundary(r, i) == IsWordAt(r, i - 1) # IsWordAt(r, i)

\* r[a..b]
Slice(r, a, b) == SubSeq(r, a, b)

Min(S) == CHOOSE x \in S : \A y \in S : x <= y

(***************************************************************************)
(* highlightSyntax, stage by stage.  Each stage is String.replace with a   *)
(* global regular expression: find the leftmost match at or after the      *)
(* current position, copy what precedes it, emit the replacement and       *)
(* resume after the match.                                                 *)
(***************************************************************************)
\* the leftmost of the positions in found, 0 if there is none
First(found) == IF found = {} THEN 0 ELSE Min(found)

Rest(r, i) == Slice(r, i, Len(r))

\* /<br\/>/ matches at i
BrAt(r, i) == MatchAt(r, i, BrTag)

\* .replace(/<br\/>/g, '&lt;br/&gt;')
RECURSIVE escapeBr(_, _)
escapeBr(r, i) ==
    LET p == First({q \in i..Len(r) : BrAt(r, q)})
    IN  IF p = 0 THEN Rest(r, i)
        ELSE Slice(r, i, p - 1) \o Mark(BrEscaped, 1)
                 \o escapeBr(r, p + Len(BrTag))

\* /#[A-Fa-f0-9]{6}/ matches at i
HexAt(r, i) ==
    /\ i + 6 <= Len(r)
    /\ r[i].ch = "#"
    /\ \A k \in 1..6 : r[i + k].ch \in HexDigit

\* .replace(/#[A-Fa-f0-9]{6}/g,
\*          (match) => `<span style="color: ${colors.hexColor(match)}">${match}</span>`)
RECURSIVE colorHex(_, _)
colorHex(r, i) ==
    LET p == First({q \in i..Len(r) : HexAt(r, q)})
    IN  IF p = 0 THEN Rest(r, i)
        ELSE Slice(r, i, p - 1)
                 \o Span(Chars(Slice(r, p, p + 6)), Slice(r, p, p + 6), 2)
                 \o colorHex(r, p + 7)

\* the alternatives of /\b(graph|TD|LR|TB|RL)\b/ that match at i
KeywordsAt(r, i) ==
    IF Boundary(r, i)
    THEN {k \in 1..Len(Keywords) :
             /\ MatchAt(r, i, Keywords[k])
             /\ Boundary(r, i + Len(Keywords[k]))}
    ELSE {}

KeywordAt(r, i) == KeywordsAt(r, i) # {}

\* .replace(/\b(graph|TD|LR|TB|RL)\b/g, `<span style="color: ${colors.keyword}">$1</span>`)
\* the first alternative that matches is the one taken
RECURSIVE colorKeywords(_, _, _)
colorKeywords(r, i, m) ==
    LET p == First({q \in i..Len(r) : KeywordAt(r, q)})
    IN  IF p = 0 THEN Rest(r, i)
        ELSE LET n == Len(Keywords[Min(KeywordsAt(r, p))])
             IN  Slice(r, i, p - 1)
                     \o Span(getColors(m).keyword, Slice(r, p, p + n - 1), 3)
                     \o colorKeywords(r, p + n, m)

\* /\b([A-Za-z])\b/ matches at i
SingleAt(r, i) ==
    /\ r[i].ch \in Letter
    /\ Boundary(r, i)
    /\ Boundary(r, i + 1)

\* end of the run [A-Za-z0-9]* that starts at i: the first position after it
NameEnd(r, i) ==
    LET p == First({q \in (i + 1)..Len(r) : r[q].ch \notin Alnum})
    IN  IF p = 0 THEN Len(r) + 1 ELSE p

\* /\(.*?\)|\[.*?\]/ anchored at j: position of the closing delimiter, 0 if
\* there is no match (. does not match a line terminator)
ShapeEnd(r, j) ==
    IF j > Len(r) \/ r[j].ch \notin {"(", "["} THEN 0
    ELSE LET close == IF r[j].ch = "(" THEN ")" ELSE "]"
             k == First({q \in (j + 1)..Len(r) :
                            r[q].ch \in {close} \cup LineTerminator})
         IN  IF k = 0 \/ r[k].ch # close THEN 0 ELSE k

\* /([A-Za-z][A-Za-z0-9]*?)(\(.*?\)|\[.*?\])/ matches at i: the lazy name
\* can only stop where a delimiter opens, which is the end of the run
NamedShapeAt(r, i) ==
    /\ r[i].ch \in Letter
    /\ ShapeEnd(r, NameEnd(r, i)) # 0

NodeAt(r, i) == SingleAt(r, i) \/ NamedShapeAt(r, i)

\* a plausible slip: the second branch returns the span without ${shape}
RECURSIVE colorNodesNoShape(_, _, _)
colorNodesNoShape(r, i, m) ==
    LET p == First({q \in i..Len(r) : NodeAt(r, q)})
    IN  IF p = 0 THEN Rest(r, i)
        ELSE IF SingleAt(r, p)
        THEN Slice(r, i, p - 1)
                 \o Span(getColors(m).node, <<r[p]>>, 4)
                 \o colorNodesNoShape(r, p + 1, m)
        ELSE LET j == NameEnd(r, p)
                 k == ShapeEnd(r, j)
             IN  Slice(r, i, p - 1)
                     \o Span(getColors(m).node, Slice(r, p, j - 1), 4)
                     \o colorNodesNoShape(r, k + 1, m)

\* .replace(/\b([A-Za-z])\b|([A-Za-z][A-Za-z0-9]*?)(\(.*?\)|\[.*?\])/g,
\*          (match, single, name, shape) => ...)
\* the first alternative is tried first at every position
RECURSIVE colorNodes(_, _, _)
colorNodes(r, i, m) ==
    LET p == First({q \in i..Len(r) : NodeAt(r, q)})
    IN  IF p = 0 THEN Rest(r, i)
        ELSE IF SingleAt(r, p)
        THEN Slice(r, i, p - 1)
                 \o Span(getColors(m).node, <<r[p]>>, 4)
                 \o colorNodes(r, p + 1, m)
        ELSE LET j == NameEnd(r, p)
                 k == ShapeEnd(r, j)
             IN  Slice(r, i, p - 1)
                     \o Span(getColors(m).node, Slice(r, p, j - 1), 4)
                     \o Slice(r, j, k)
                     \o colorNodes(r, k + 1, m)

\* /-->/ matches at i
ArrowAt(r, i) == MatchAt(r, i, Arrow)

\* .replace(/-->/g, `<span style="color: ${colors.operator}">--></span>`)
\* the replacement spells the arrow out again: it stands for the matched one
RECURSIVE colorArrows(_, _, _)
colorArrows(r, i, m) ==
    LET p == First({q \in i..Len(r) : ArrowAt(r, q)})
    IN  IF p = 0 THEN Rest(r, i)
        ELSE Slice(r, i, p - 1)
                 \o Span(getColors(m).operator, Mark(Arrow, SRC), 5)
                 \o colorArrows(r, p + Len(Arrow), m)

\* coloredLine
coloredLine(line, m) ==
    colorArrows(
        colorNodes(
            colorKeywords(
                colorHex(
                    escapeBr(Mark(line, SRC), 1),
                    1),
                1, m),
            1, m),
        1, m)

\* __html: coloredLine || '&nbsp;'
innerHTML(line, m) ==
    LET html == coloredLine(line, m)
    IN  IF html = <<>> THEN Mark(Nbsp, 6) ELSE html

\* String.prototype.split('\n'): the pieces between line feeds, one more
\* than there are line feeds
RECURSIVE splitFrom(_, _)
splitFrom(s, i) ==
    LET feeds == {p \in i..Len(s) : s[p] = "\n"}
    IN  IF feeds = {} THEN <<SubSeq(s, i, Len(s))>>
        ELSE <<SubSeq(s, i, Min(feeds) - 1)>> \o splitFrom(s, Min(feeds) + 1)

\* a plausible slip: a trailing empty piece is dropped, as split does in
\* other languages
splitNoTrailing(s) ==
    LET pieces == splitFrom(s, 1)
    IN  IF Len(pieces) > 1 /\ pieces[Len(pieces)] = <<>>
        THEN SubSeq(pieces, 1, Len(pieces) - 1)
        ELSE pieces

split(s) == splitFrom(s, 1)

\* highlightSyntax(code): code.split('\n').map(...), one <div> per line
highlightSyntax(code, m) ==
    LET lines == split(code)
    IN  [i \in 1..Len(lines) |-> innerHTML(lines[i], m)]

\* Array.from({ length: value.split('\n').length }, (_, i) => i + 1)
lineNumbersOf(code) ==
    LET length == Len(split(code))
    IN  [i \in 1..length |-> (i - 1) + 1]

RECURSIVE Flatten(_)
Flatten(ss) == IF ss = <<>> THEN <<>> ELSE Head(ss) \o Flatten(Tail(ss))

(***************************************************************************)
(* Document texts: concatenations of fragments of the diagram language     *)
(***************************************************************************)
Fragments ==
    { <<"A">>, <<"1">>, <<"[", "x", "]">>, <<"(", "T", "D", ")">>,
      <<"(">>, <<")">>, <<"T", "D">>, <<"-", "-", ">">>,
      <<"#", "A", "1", "B", "2", "C", "3">>, <<"<", "b", "r", "/", ">">>,
      <<"\n">>, <<" ">> }

Texts(n) == {Flatten(fs) : fs \in UNION {[1..k -> Fragments] : k \in 0..n}}

AllTexts == Texts(MaxFrags)

Modes == {"dark", "light"}

\* documents the whole widget is exercised with
SampleTexts == { <<>>, <<"1", "\n", "A">> }

(***************************************************************************)
(* State of the widget                                                     *)
(***************************************************************************)
NULL     == "null"
Surfaces == {"textarea", "highlight"}
Offsets  == [scrollTop : 0..MaxOff, scrollLeft : 0..MaxOff]
Origin   == [scrollTop |-> 0, scrollLeft |-> 0]

CopyResetDelay == 2000                   \* setTimeout(..., 2000)
TickMs         == CopyResetDelay \div 2  \* granularity of the clock

NoClip == <<"?">>                        \* clipboard not written by the widget

Ran(op, source, ok) == [op |-> op, source |-> source, ok |-> ok]

\* the first render of the component, for a text and a theme of the caller's
Init ==
    /\ value \in SampleTexts
    /\ mode \in Modes
    /\ rendered = highlightSyntax(value, mode)
    /\ lineNumbers = lineNumbersOf(value)
    /\ copied = FALSE
    /\ timers = <<>>
    /\ clipboard = NoClip
    /\ textareaRef = NULL
    /\ highlightRef = NULL
    /\ scroll = [s \in Surfaces |-> Origin]
    /\ pending = <<>>
    /\ last = Ran("render", "none", TRUE)
    /\ userLast = Origin
    /\ sinceLast = CopyResetDelay

Mounted == textareaRef # NULL /\ highlightRef # NULL

\* React commits the tree: ref={textareaRef}, ref={highlightRef}
Mount ==
    /\ textareaRef = NULL
    /\ highlightRef = NULL
    /\ textareaRef' = "textarea"
    /\ highlightRef' = "highlight"
    /\ last' = Ran("mount", "none", TRUE)
    /\ UNCHANGED <<textVars, copyVars, scroll, pending, userLast>>

\* onChange={onChange}: the caller stores the edited text and passes it back
\* as `value`; the component re-renders (lineNumbers, highlightSyntax(value))
Edit(t) ==
    /\ Mounted
    /\ t # value
    /\ value' = t
    /\ rendered' = highlightSyntax(t, mode)
    /\ lineNumbers' = lineNumbersOf(t)
    /\ last' = Ran("onChange", "textarea", TRUE)
    /\ UNCHANGED <<mode, copyVars, scrollVars>>

\* the user types the fragment f at the end of the text
Type(f) ==
    /\ value \o f \in AllTexts
    /\ Edit(value \o f)

(***************************************************************************)
(* Scrolling                                                               *)
(***************************************************************************)
InSeq(q, s) == \E i \in 1..Len(q) : q[i] = s

\* a scroll event on s is raised unless one is already waiting
Raise(q, s) == IF InSeq(q, s) THEN q ELSE Append(q, s)

\* the user scrolls the textarea (the overlay has pointerEvents: 'none')
UserScroll(off) ==
    /\ Mounted
    /\ off # scroll["textarea"]
    /\ scroll' = [scroll EXCEPT !["textarea"] = off]
    /\ pending' = Raise(pending, "textarea")
    /\ userLast' = off
    /\ last' = Ran("scroll", "textarea", TRUE)
    /\ UNCHANGED <<textVars, copyVars, textareaRef, highlightRef>>

\* el.scrollTop = top; el.scrollLeft = left, and the scroll event the
\* browser raises on el when that moved it; q is the queue of raised events
Assign(el, top, left, q) ==
    /\ scroll' = [scroll EXCEPT ![el] = [scrollTop |-> top, scrollLeft |-> left]]
    /\ pending' = IF scroll[el] # [scrollTop |-> top, scrollLeft |-> left]
                  THEN Raise(q, el)
                  ELSE q

\* a plausible slip: the two axes crossed
syncScrollCrossed(source) ==
    /\ IF textareaRef # NULL /\ highlightRef # NULL
       THEN IF source = textareaRef
            THEN Assign(highlightRef, scroll[source].scrollLeft,
                        scroll[source].scrollTop, Tail(pending))
            ELSE Assign(textareaRef, scroll[source].scrollLeft,
                        scroll[source].scrollTop, Tail(pending))
       ELSE /\ pending' = Tail(pending)
            /\ UNCHANGED scroll
    /\ last' = Ran("syncScroll", source, TRUE)
    /\ UNCHANGED <<textVars, copyVars, textareaRef, highlightRef, userLast>>

\* syncScroll(e) with e.target = source, the event at the head of the queue
syncScroll(source) ==
    /\ IF textareaRef # NULL /\ highlightRef # NULL
       THEN IF source = textareaRef
            THEN Assign(highlightRef, scroll[source].scrollTop,
                        scroll[source].scrollLeft, Tail(pending))
            ELSE Assign(textareaRef, scroll[source].scrollTop,
                        scroll[source].scrollLeft, Tail(pending))
       ELSE /\ pending' = Tail(pending)
            /\ UNCHANGED scroll
    /\ last' = Ran("syncScroll", source, TRUE)
    /\ UNCHANGED <<textVars, copyVars, textareaRef, highlightRef, userLast>>

\* onScroll={syncScroll} on both surfaces: the browser dispatches the oldest
\* waiting scroll event
DispatchScroll ==
    /\ pending # <<>>
    /\ syncScroll(Head(pending))

(***************************************************************************)
(* Copy button                                                             *)
(***************************************************************************)
\* a plausible slip: the reset is never scheduled
handleCopyNoReset(ok) ==
    /\ Mounted
    /\ Len(timers) < MaxTimers
    /\ clipboard' = IF ok THEN value ELSE clipboard
    /\ copied' = TRUE
    /\ sinceLast' = 0
    /\ last' = Ran("handleCopy", "button", ok)
    /\ UNCHANGED <<textVars, timers, scrollVars>>

\* handleCopy; ok: whether the promise of clipboard.writeText is fulfilled
handleCopy(ok) ==
    /\ Mounted
    /\ Len(timers) < MaxTimers
    /\ clipboard' = IF ok THEN value ELSE clipboard
    /\ copied' = TRUE
    /\ timers' = Append(timers, CopyResetDelay)
    /\ sinceLast' = 0
    /\ last' = Ran("handleCopy", "button", ok)
    /\ UNCHANGED <<textVars, scrollVars>>

\* TickMs pass; a timer that is due fires first
Tick ==
    /\ \A i \in 1..Len(timers) : timers[i] > 0
    /\ timers # <<>> \/ sinceLast < CopyResetDelay
    /\ timers' = [i \in 1..Len(timers) |-> timers[i] - TickMs]
    /\ sinceLast' = IF sinceLast + TickMs < CopyResetDelay
                    THEN sinceLast + TickMs
                    ELSE CopyResetDelay
    /\ last' = Ran("tick", "none", TRUE)
    /\ UNCHANGED <<textVars, copied, clipboard, scrollVars>>

\* a plausible slip: the callback also resets the text
TimerFireClears ==
    /\ timers # <<>>
    /\ Head(timers) = 0
    /\ copied' = FALSE
    /\ timers' = Tail(timers)
    /\ value' = <<>>
    /\ rendered' = highlightSyntax(<<>>, mode)
    /\ lineNumbers' = lineNumbersOf(<<>>)
    /\ last' = Ran("timeout", "none", TRUE)
    /\ UNCHANGED <<mode, clipboard, sinceLast, scrollVars>>

\* () => { setCopied(false); }
TimerFire ==
    /\ timers # <<>>
    /\ Head(timers) = 0
    /\ copied' = FALSE
    /\ timers' = Tail(timers)
    /\ last' = Ran("timeout", "none", TRUE)
    /\ UNCHANGED <<textVars, clipboard, sinceLast, scrollVars>>

(***************************************************************************)
(* Specifications                                                          *)
(***************************************************************************)
Next ==
    \/ Mount
    \/ \E t \in SampleTexts : Edit(t)
    \/ \E off \in Offsets : UserScroll(off)
    \/ DispatchScroll
    \/ \E ok \in BOOLEAN : handleCopy(ok)
    \/ Tick
    \/ TimerFire

Spec == Init /\ [][Next]_vars

\* the copy button alone; the timers run: time passes and a due callback
\* is called
NextCopy ==
    \/ Mount
    \/ \E t \in SampleTexts : Edit(t)
    \/ \E ok \in BOOLEAN : handleCopy(ok)
    \/ Tick
    \/ TimerFire

LiveCopy == Init /\ [][NextCopy]_vars /\ WF_vars(Tick) /\ WF_vars(TimerFire)

\* the highlighter and the gutter, over every text of at most MaxFrags
\* fragments: the user types one fragment after the other, or replaces the
\* text
NextHL ==
    \/ Mount
    \/ \E t \in SampleTexts : Edit(t)
    \/ \E f \in Fragments : Type(f)

SpecHL == Init /\ [][NextHL]_vars

(***************************************************************************)
(* Properties                                                              *)
(***************************************************************************)
Other(s) == IF s = "textarea" THEN "highlight" ELSE "textarea"

\* C1: when syncScroll has handled a scroll event of one surface with both
\* surfaces mounted, the other surface has the offsets of the originating
\* one, on both axes, whichever surface the event came from.
C1_SyncEquatesOffsets ==
    (last.op = "syncScroll" /\ Mounted) =>
        /\ scroll[Other(last.source)].scrollTop = scroll[last.source].scrollTop
        /\ scroll[Other(last.source)].scrollLeft = scroll[last.source].scrollLeft

\* syncScroll has handled an event of the overlay, away from the origin
C1_Witness ==
    /\ last.op = "syncScroll"
    /\ last.source = "highlight"
    /\ scroll["highlight"].scrollTop # scroll["highlight"].scrollLeft

\* C2: the write syncScroll makes to the receiving surface raises no scroll
\* event: once syncScroll has run, no scroll event is pending.
C2_NoFeedback == last.op = "syncScroll" => pending = <<>>

\* C3: the flag stays true until 2000 ms after the most recent activation.
C3_HeldSinceLastActivation == sinceLast < CopyResetDelay => copied

\* C4: every activation sets the flag and schedules its reset 2000 ms later,
\* whatever the text is, and a flag that is set is eventually reset.
C4_SetThenReset ==
    /\ [][last'.op = "handleCopy" =>
            copied' /\ timers' = Append(timers, CopyResetDelay)]_vars
    /\ copied ~> ~copied

\* the reset has fired after a copy of a non-empty text
C4_Witness ==
    /\ last.op = "timeout"
    /\ ~copied
    /\ timers = <<>>
    /\ value # <<>>
    /\ clipboard = value

\* C5: the document text changes only in the step of the change callback;
\* scroll handling, copy, timer expiry and mounting leave it as it is, and
\* what the widget shows is always derived from the current text.
C5_TextChangedOnlyByEdit ==
    /\ [][value' # value => last'.op = "onChange"]_vars
    /\ [](/\ rendered = highlightSyntax(value, mode)
          /\ lineNumbers = lineNumbersOf(value))

\* a non-empty text has survived scroll synchronization, a copy and the reset
C5_Witness ==
    /\ last.op = "timeout"
    /\ value # <<>>
    /\ clipboard = value
    /\ scroll["highlight"] # Origin

LineFeeds(s) == Cardinality({i \in 1..Len(s) : s[i] = "\n"})

\* C6: the gutter is 1, 2, ..., n with n the number of line feeds of the
\* text plus one, and the overlay has n rows.
C6_GutterIsDense ==
    /\ lineNumbers = [i \in 1..(LineFeeds(value) + 1) |-> i]
    /\ Len(rendered) = LineFeeds(value) + 1

\* a text that ends with a line feed after a non-empty line
C6_Witness ==
    /\ Len(value) > 1
    /\ value[Len(value)] = "\n"
    /\ value[1] # "\n"
    /\ Len(lineNumbers) = 2

\* the markup of a row without what the stages 2 to 5 inserted
Stripped(row) == SelectSeq(row, LAMBDA x : x.st \in {SRC, 1})

\* the escapes of stage 1 turned back into <br/>
RECURSIVE unescapeBr(_, _)
unescapeBr(r, i) ==
    LET p == First({q \in i..Len(r) : r[q].st = 1})
    IN  IF p = 0 THEN Rest(r, i)
        ELSE Slice(r, i, p - 1) \o Mark(BrTag, SRC)
                 \o unescapeBr(r, p + Len(BrEscaped))

RECURSIVE JoinLines(_)
JoinLines(rows) ==
    IF Len(rows) = 1 THEN rows[1]
    ELSE rows[1] \o <<"\n">> \o JoinLines(Tail(rows))

\* length of the inserted piece that starts at a (an opening span, a
\* closing span, &nbsp; or an escaped <br/>, every character of it from the
\* same stage), 0 if none starts there
TagAt(row, a) ==
    LET n == IF MatchAt(row, a, SpanClose) THEN Len(SpanClose)
             ELSE IF MatchAt(row, a, Nbsp) THEN Len(Nbsp)
             ELSE IF MatchAt(row, a, BrEscaped) THEN Len(BrEscaped)
             ELSE IF /\ MatchAt(row, a, SpanHead)
                     /\ HexAt(row, a + Len(SpanHead))
                     /\ MatchAt(row, a + Len(SpanHead) + 7, SpanTail)
                  THEN Len(SpanHead) + 7 + Len(SpanTail)
             ELSE 0
    IN  IF n > 0 /\ \A k \in a..(a + n - 1) : row[k].st = row[a].st
        THEN n ELSE 0

\* every inserted character of the row lies in a piece that is still whole
TagsWhole(row) ==
    LET inserted == {i \in 1..Len(row) : row[i].st # SRC}
        starts   == {a \in inserted : row[a].ch \in {"<", "&"}}
    IN  inserted = UNION {a..(a + TagAt(row, a) - 1) : a \in starts}

\* C7: the rows, stripped of the inserted markup and joined by line feeds,
\* are the text with each <br/> escaped and nothing else changed, and no
\* piece a stage inserted is broken up by a later stage.
C7_ContentPreserved ==
    /\ JoinLines([i \in 1..Len(rendered) |->
                     Chars(unescapeBr(Stripped(rendered[i]), 1))]) = value
    /\ \A i \in 1..Len(rendered) : TagsWhole(rendered[i])

\* two rows, an escaped <br/> and a colored token
C7_Witness ==
    /\ Len(rendered) = 2
    /\ \E i \in 1..2 : \E j \in 1..Len(rendered[i]) : rendered[i][j].st = 1
    /\ \E i \in 1..2 : \E j \in 1..Len(rendered[i]) : rendered[i][j].st \in 2..5

\* the node span that ends at p - 1 is followed at p by a shape delimiter
ShapeAfterNode(row, p) ==
    /\ p > Len(SpanClose)
    /\ row[p - 1].st = 4
    /\ MatchAt(row, p - Len(SpanClose), SpanClose)
    /\ ShapeEnd(row, p) # 0

\* C8: where the node step colored an identifier that a shape delimiter
\* follows, it inserted nothing inside the delimiter.
C8_ShapePassesThrough ==
    \A i \in 1..Len(rendered) : \A p \in 1..Len(rendered[i]) :
        ShapeAfterNode(rendered[i], p) =>
            \A q \in p..ShapeEnd(rendered[i], p) : rendered[i][q].st # 4

\* C9: a copy whose clipboard write fails changes neither the flag nor the
\* timers, and one whose write succeeds sets the flag with the text written.
C9_CopyAllOrNothing ==
    [][last'.op = "handleCopy" =>
          \/ last'.ok /\ clipboard' = value /\ copied'
          \/ ~last'.ok /\ UNCHANGED <<copied, timers, clipboard>>]_vars

\* C10: once no scroll event is pending, both surfaces are at the offsets
\* the user set last.
C10_LastUserScrollWins ==
    (Mounted /\ pending = <<>>) =>
        /\ scroll["textarea"] = userLast
        /\ scroll["highlight"] = userLast

====
